---- MODULE Spec2Model ----
(***************************************************************************)
(* Model of the SimulaAI front end (Home, ChatbotEntry, SimulationLayout,  *)
(* DashboardContainer).  One action per event handler.  React commits the  *)
(* state updates of a handler and runs the effects whose dependencies      *)
(* changed before the next event is dispatched, so every action includes   *)
(* the re-render and the effects its updates trigger.  Closures keep the   *)
(* values of the render that created them: a socket's handlers hold the    *)
(* isRunning and statusMessage of the render whose effect created the      *)
(* socket, a refine cycle holds the currentSim of the render it was        *)
(* submitted in.                                                           *)
(***************************************************************************)
EXTENDS Integers, Sequences, FiniteSets, TLC

\* ---------------------------------------------------------------- bounds
MaxResets == 1      \* value resetTrigger reaches (resets and applied refines)
MaxSeries == 3      \* elements of the data series, the seed point included
MaxSent == 2        \* command frames sent on one socket
MaxHttp == 2        \* HTTP requests in flight

\* ------------------------------------------------------------- JS values
Undefined == "undefined"

Falsy(v) == v \in {Undefined, ""}

\* mutant of Trim: the prompt is tested as typed
TrimNothing(p) == p

\* String.prototype.trim on the prompts the model submits
Trim(p) == IF p \in {"", "  "} THEN "" ELSE p

Prompts == {"", "  ", "walk"}

RefinePrompts == {"", "stronger legs"}

NullSim == [simulation_id |-> Undefined, model_xml |-> Undefined, xml_key |-> Undefined]

\* the body a 2xx generate response carries
GeneratedSim == [simulation_id |-> "sim-1", model_xml |-> "xml-1", xml_key |-> "key-1"]

\* ----------------------------------------------------------- status text
Msg(prefix, arg) == [prefix |-> prefix, arg |-> arg]

Connecting == Msg("Connecting to training server...", "")

TrainingStarted == Msg("Training started...", "")

EpisodeMsg(e) == Msg("Training... Episode: ", ToString(e))

TrainingComplete == Msg("Training Complete!", "")

ErrorMsg(err) == Msg("Error: ", err)

ConnectionError == Msg("Connection error. Is the server running?", "")

ConnectionLost == Msg("Training connection lost.", "")

\* statusMessage.startsWith("Training")
StartsWithTraining(m) ==
    m.prefix \in {"Training started...", "Training... Episode: ",
                  "Training Complete!", "Training connection lost."}

\* ---------------------------------------------------------- inbound frames
\* A frame is the text of one WebSocket message: either text JSON.parse
\* rejects (parses = FALSE) or an object with some of the fields episode,
\* status and error (fields names the ones present).
FieldNames == {"episode", "status", "error"}

\* the episode numbers the frames of the model carry
Episodes == {0, 1}

Frame(ok, F, e, s, x) ==
    [parses |-> ok, fields |-> F,
     episode |-> e, reward |-> IF "episode" \in F THEN 5 ELSE 0,
     length |-> IF "episode" \in F THEN 10 ELSE 0,
     status |-> s, error |-> x]

Garbage == Frame(FALSE, {}, 0, Undefined, Undefined)

Frames ==
    {Garbage} \cup
    {Frame(TRUE, F, e, s, x) :
        F \in SUBSET FieldNames, e \in Episodes,
        s \in {Undefined, "complete"}, x \in {Undefined, "", "boom"}}

\* the shapes the model delivers: the three of the protocol, an object with
\* none of the fields, a falsy error, and the mixed shapes
Shapes ==
    {f \in Frames :
        \/ ~f.parses
        \/ f.error # ""
        \/ f.fields = {"error"}}

\* frames in canonical form: an absent field holds its default
WireFrames ==
    {f \in Frames :
        /\ ("episode" \in f.fields \/ f.episode = 0)
        /\ ("status" \in f.fields <=> f.status # Undefined)
        /\ ("error" \in f.fields <=> f.error # Undefined)
        /\ f \in Shapes}

\* the terminal frames of the protocol: no episode, and status "complete" or
\* a truthy error
TerminalFrame(f) ==
    /\ f.parses
    /\ "episode" \notin f.fields
    /\ f.status = "complete" \/ f.error \notin {Undefined, ""}

\* the keys of a data element the charts read (dataKey episode, reward, length)
Point(f) == [episode |-> f.episode, reward |-> f.reward, length |-> f.length]

\* mutant of getInitialData: the series starts without the seed point
getInitialDataEmpty == << >>

getInitialData == << [episode |-> 0, reward |-> 0, length |-> 0] >>

\* ------------------------------------------------------------- variables
VARIABLES
    simulation,     \* Home: useState<Simulation | null>
    isLoading,      \* ChatbotEntry: generate request pending
    currentSim,     \* SimulationLayout: {simulation_id, model_xml, xml_key}
    isSimRunning,   \* SimulationLayout: desired run state
    resetTrigger,   \* SimulationLayout: reset counter
    isRefining,     \* SimulationLayout: refine cycle pending
    data,           \* DashboardContainer: telemetry series
    statusMessage,  \* DashboardContainer: status line
    sockets,        \* every WebSocket created, in creation order
    wsCurrent,      \* DashboardContainer: ws.current (0 is null)
    cleanup,        \* socket the pending effect cleanup closes (0: none)
    http,           \* fetch requests in flight, with their handler's closure
    hTerminal,      \* history: a terminal frame was handled on this instance
    hAppliedKey,    \* history: xml_key sent by the latest apply answered 2xx
                    \* with simulation_id and model_xml
    hStopped,       \* history: a terminal frame was handled and Run was not
                    \* clicked since
    lastEvent       \* history: the event handled last

vars == <<simulation, isLoading, currentSim, isSimRunning, resetTrigger,
          isRefining, data, statusMessage, sockets, wsCurrent, cleanup,
          http, hTerminal, hAppliedKey, hStopped, lastEvent>>

homeVars == <<simulation, isLoading>>

layoutVars == <<currentSim, isSimRunning, resetTrigger, isRefining>>

dashVars == <<data, statusMessage, sockets, wsCurrent, cleanup, hTerminal>>

\* mixed: the event is a frame that carries more than one of the fields
\* episode, status and error
Event(op, i) == [op |-> op, sock |-> i, mixed |-> FALSE]

FrameEvent(op, i, f) == [op |-> op, sock |-> i, mixed |-> Cardinality(f.fields) > 1]

Mounted == simulation # NullSim

Init ==
    /\ simulation = NullSim
    /\ isLoading = FALSE
    /\ currentSim = NullSim
    /\ isSimRunning = TRUE
    /\ resetTrigger = 0
    /\ isRefining = FALSE
    /\ data = getInitialData
    /\ statusMessage = Connecting
    /\ sockets = << >>
    /\ wsCurrent = 0
    /\ cleanup = 0
    /\ http = << >>
    /\ hTerminal = FALSE
    /\ hAppliedKey = Undefined
    /\ hStopped = FALSE
    /\ lastEvent = Event("init", 0)

\* ------------------------------------------------------------- WebSocket
Command(isRunning) == IF isRunning THEN "run" ELSE "pause"

\* mutant of CloseSocket: close() is never called on the replaced socket
CloseSocketNever(socks, i) == socks

\* A socket on which close() was called: readyState is CLOSING, and of its
\* handlers only onerror and onclose are still called, so what it sent and
\* the closure of onopen are dropped.
ClosingSocket(sock) ==
    [sock EXCEPT !.readyState = "CLOSING", !.isRunning = FALSE, !.sent = << >>]

\* mutant of CloseSocket: a socket that is still connecting is left alone
CloseSocketOnlyOpen(socks, i) ==
    IF socks[i].readyState = "OPEN"
    THEN [socks EXCEPT ![i] = ClosingSocket(@)]
    ELSE socks

\* WebSocket.close(): starts the closing handshake unless already closing
CloseSocket(socks, i) ==
    IF socks[i].readyState \in {"CONNECTING", "OPEN"}
    THEN [socks EXCEPT ![i] = ClosingSocket(@)]
    ELSE socks

\* mutant of SendCommand: the frame is not sent
SendCommandNothing(socks, i, cmd) == socks

\* WebSocket.send(JSON.stringify({command}))
SendCommand(socks, i, cmd) == [socks EXCEPT ![i].sent = Append(@, cmd)]

\* mutant of NewSocket: onopen holds the default run state, not the one of
\* the render that created the socket
NewSocketDefaultRun(simulationId, isRunning, status) ==
    [url |-> simulationId, readyState |-> "CONNECTING",
     isRunning |-> TRUE, statusMessage |-> status,
     opened |-> FALSE, sent |-> << >>]

\* new WebSocket(url) and its handlers, which close over isRunning and
\* statusMessage
NewSocket(simulationId, isRunning, status) ==
    [url |-> simulationId, readyState |-> "CONNECTING",
     isRunning |-> isRunning, statusMessage |-> status,
     opened |-> FALSE, sent |-> << >>]

\* a socket whose connection has ended: readyState is CLOSED, no handler of
\* it is called again, and what it sent and its handlers' closures are dropped
ClosedSocket(url) ==
    [url |-> url, readyState |-> "CLOSED",
     isRunning |-> FALSE, statusMessage |-> Connecting,
     opened |-> FALSE, sent |-> << >>]

\* whether the socket's open event was fired
WasOpen(sock) == sock.opened

\* mutant of ConnectionEffect: the effect returns no cleanup and does not
\* close ws.current
ConnectionEffectNoClose(socks, cur, cln, simulationId, isRunning, status, series) ==
    IF Falsy(simulationId)
    THEN [sockets |-> socks, ws |-> cur, cleanup |-> 0,
          data |-> series, status |-> status, fresh |-> FALSE]
    ELSE [sockets |-> Append(socks, NewSocket(simulationId, isRunning, status)),
          ws |-> Len(socks) + 1, cleanup |-> 0,
          data |-> getInitialData, status |-> Connecting, fresh |-> TRUE]

\* The connection effect, run when simulationId or resetTrigger changed: the
\* cleanup of its previous run first, then its body, in the render that has
\* isRunning and status as its values.
ConnectionEffect(socks, cur, cln, simulationId, isRunning, status, series) ==
    LET cleaned == IF cln # 0 THEN CloseSocket(socks, cln) ELSE socks
    IN  IF Falsy(simulationId)
        THEN [sockets |-> cleaned, ws |-> cur, cleanup |-> 0,
              data |-> series, status |-> status, fresh |-> FALSE]
        ELSE LET closed == IF cur # 0 THEN CloseSocket(cleaned, cur) ELSE cleaned
             IN  [sockets |-> Append(closed, NewSocket(simulationId, isRunning, status)),
                  ws |-> Len(closed) + 1, cleanup |-> Len(closed) + 1,
                  data |-> getInitialData, status |-> Connecting, fresh |-> TRUE]

\* mutant of IsRunningEffect: the readyState test is missing
IsRunningEffectNoOpenTest(socks, cur, isRunning) ==
    IF cur # 0
    THEN SendCommand(socks, cur, Command(isRunning))
    ELSE socks

\* mutant of IsRunningEffect: the command is sent twice
IsRunningEffectTwice(socks, cur, isRunning) ==
    IF cur # 0 /\ socks[cur].readyState = "OPEN"
    THEN SendCommand(SendCommand(socks, cur, Command(isRunning)),
                     cur, Command(isRunning))
    ELSE socks

\* The isRunning effect, run when isRunning changed
IsRunningEffect(socks, cur, isRunning) ==
    IF cur # 0 /\ socks[cur].readyState = "OPEN"
    THEN SendCommand(socks, cur, Command(isRunning))
    ELSE socks

\* bound: the isRunning effect may still send on the current socket
RoomToSend(socks, cur) ==
    cur = 0 \/ socks[cur].readyState # "OPEN" \/ Len(socks[cur].sent) < MaxSent

\* ------------------------------------------------------------------ HTTP
Request(url, prompt, key, edits, sim) ==
    [url |-> url, prompt |-> prompt, xml_key |-> key, edits |-> edits, sim |-> sim]

RemoveAt(q, k) == SubSeq(q, 1, k - 1) \o SubSeq(q, k + 1, Len(q))

Edits == {<< >>, <<"e1", "e2">>}

\* what fetch resolves to for plan_edits: response.ok, whether json() yields
\* an object, and the object's edits field
PlanResponses ==
    {[ok |-> ok, parses |-> ps, hasEdits |-> he, edits |-> ed] :
        ok \in BOOLEAN, ps \in BOOLEAN, he \in BOOLEAN, ed \in Edits}

\* a body that does not parse has no fields; a non-2xx response may carry
\* any body
PlanWire ==
    {r \in PlanResponses :
        /\ (r.hasEdits \/ r.edits = << >>)
        /\ (r.parses \/ ~r.hasEdits)}

\* the kind of plan_edits response, by what the server sent
PlanEvent(r) ==
    IF ~r.ok THEN "planFailed"
    ELSE IF ~r.parses THEN "planMalformed"
    ELSE IF ~r.hasEdits \/ r.edits = << >> THEN "planEmpty"
    ELSE "planOk"

\* what fetch resolves to for apply_edits
ApplyResponses ==
    {[ok |-> ok, parses |-> ps, simulation_id |-> id, model_xml |-> xml] :
        ok \in BOOLEAN, ps \in BOOLEAN,
        id \in {"sim-2", Undefined}, xml \in {"xml-2", Undefined}}

\* a body that does not parse has no fields, and a non-2xx body is an error
\* body without simulation_id and model_xml
ApplyWire ==
    {r \in ApplyResponses :
        /\ (r.parses \/ r.simulation_id = Undefined)
        /\ (r.ok \/ r.simulation_id = Undefined)
        /\ (r.simulation_id = Undefined <=> r.model_xml = Undefined)
        }

\* the kind of apply_edits response, by what the server sent
ApplyEvent(r) ==
    IF ~r.ok THEN "applyFailed"
    ELSE IF ~r.parses \/ r.simulation_id = Undefined THEN "applyMalformed"
    ELSE "applyOk"

\* ------------------------------------------------- Home and ChatbotEntry
\* handleSubmit up to its first await
handleSubmit(p) ==
    /\ ~Mounted
    /\ ~isLoading
    /\ Len(http) < MaxHttp
    /\ IF Trim(p) = ""
       THEN /\ UNCHANGED <<isLoading, http>>
            /\ lastEvent' = Event("submitBlank", 0)
       ELSE /\ isLoading' = TRUE
            /\ http' = Append(http, Request("generate", p, Undefined, << >>, NullSim))
            /\ lastEvent' = Event("submit", 0)
    /\ UNCHANGED <<simulation, layoutVars, dashVars, hAppliedKey, hStopped>>

\* handleSubmit after the generate response; a 2xx body mounts SimulationLayout
\* and DashboardContainer, whose effects run in the same commit
GenerateResponse(k, ok, parses) ==
    /\ k \in 1..Len(http)
    /\ http[k].url = "generate"
    /\ http' = RemoveAt(http, k)
    /\ isLoading' = FALSE
    /\ IF ok /\ parses
       THEN LET eff == ConnectionEffect(sockets, wsCurrent, cleanup,
                                        GeneratedSim.simulation_id, TRUE,
                                        Connecting, getInitialData)
            IN  /\ simulation' = GeneratedSim
                /\ currentSim' = GeneratedSim
                /\ isSimRunning' = TRUE
                /\ resetTrigger' = 0
                /\ isRefining' = FALSE
                /\ data' = eff.data
                /\ statusMessage' = eff.status
                /\ sockets' = IsRunningEffect(eff.sockets, eff.ws, TRUE)
                /\ wsCurrent' = eff.ws
                /\ cleanup' = eff.cleanup
                /\ hTerminal' = FALSE
                /\ hStopped' = FALSE
                /\ lastEvent' = Event("mount", 0)
       ELSE /\ UNCHANGED <<simulation, layoutVars, dashVars, hStopped>>
            /\ lastEvent' = Event("generateFailed", 0)
    /\ UNCHANGED hAppliedKey

\* ------------------------------------------------------ SimulationLayout
\* setIsSimRunning(v) from the Run and Pause buttons, and the isRunning
\* effect when the value changed
SetRunning(v, op) ==
    /\ Mounted
    /\ v = isSimRunning \/ RoomToSend(sockets, wsCurrent)
    /\ isSimRunning' = v
    /\ sockets' = IF v # isSimRunning
                  THEN IsRunningEffect(sockets, wsCurrent, v)
                  ELSE sockets
    /\ lastEvent' = Event(op, 0)
    /\ UNCHANGED <<homeVars, currentSim, resetTrigger, isRefining, data,
                   statusMessage, wsCurrent, cleanup, http, hTerminal, hAppliedKey>>
    /\ hStopped' = (hStopped /\ ~v)

ClickRun == SetRunning(TRUE, "clickRun")

ClickPause == SetRunning(FALSE, "clickPause")

\* setResetTrigger(v => v + 1) from the Reset button, and the connection effect
ClickReset ==
    /\ Mounted
    /\ resetTrigger < MaxResets
    /\ LET eff == ConnectionEffect(sockets, wsCurrent, cleanup,
                                   currentSim.simulation_id, isSimRunning,
                                   statusMessage, data)
       IN  /\ resetTrigger' = resetTrigger + 1
           /\ data' = eff.data
           /\ statusMessage' = eff.status
           /\ sockets' = eff.sockets
           /\ wsCurrent' = eff.ws
           /\ cleanup' = eff.cleanup
           /\ hTerminal' = (hTerminal /\ ~eff.fresh)
           /\ lastEvent' = Event("reset", 0)
    /\ UNCHANGED <<homeVars, currentSim, isSimRunning, isRefining, http, hAppliedKey, hStopped>>

\* mutant of RefineGuard: the isRefining test is missing
RefineGuardNoBusyTest(prompt, refining) == prompt # ""

\* `if (!prompt || isRefining) return;`
RefineGuard(prompt, refining) == ~(prompt = "" \/ refining)

\* mutant of PlanIsEmpty: the length test is missing
PlanIsEmptyNoLengthTest(plan) == ~plan.hasEdits

\* `!plan.edits || plan.edits.length === 0`
PlanIsEmpty(plan) == ~plan.hasEdits \/ Len(plan.edits) = 0

\* mutant of PlanThrows: the response.ok test is missing
PlanThrowsNoOkTest(plan) == ~plan.parses

\* `if (!planResponse.ok) throw ...; const plan = await planResponse.json();`
PlanThrows(plan) == ~plan.ok \/ ~plan.parses

\* mutant of ApplyThrows: the response.ok test is missing
ApplyThrowsNoOkTest(resp) == ~resp.parses

\* `if (!applyResponse.ok) throw ...; const newSimData = await applyResponse.json();`
ApplyThrows(resp) == ~resp.ok \/ ~resp.parses

\* mutant of AppliedSim: the simulation id of the old revision is kept
AppliedSimKeepsId(newSimData, sim) ==
    [simulation_id |-> sim.simulation_id,
     model_xml |-> newSimData.model_xml,
     xml_key |-> sim.xml_key]

\* the argument of setCurrentSim after a 2xx apply response
AppliedSim(newSimData, sim) ==
    [simulation_id |-> newSimData.simulation_id,
     model_xml |-> newSimData.model_xml,
     xml_key |-> sim.xml_key]

\* handleRefineSubmit up to its first await
handleRefineSubmit(p) ==
    /\ Mounted
    /\ Len(http) < MaxHttp
    /\ IF RefineGuard(p, isRefining)
       THEN /\ isRefining' = TRUE
            /\ http' = Append(http, Request("plan_edits", p, currentSim.xml_key,
                                            << >>, currentSim))
            /\ lastEvent' = Event("refine", 0)
       ELSE /\ UNCHANGED <<isRefining, http>>
            /\ lastEvent' = Event(IF p = "" THEN "refineBlank" ELSE "refineBusy", 0)
    /\ UNCHANGED <<homeVars, currentSim, isSimRunning, resetTrigger, dashVars,
                   hAppliedKey, hStopped>>

\* mutant of PlanResponse: the apply request carries the plan's edits without
\* the first one
PlanResponseDropsEdit(k, plan) ==
    /\ k \in 1..Len(http)
    /\ http[k].url = "plan_edits"
    /\ lastEvent' = Event(PlanEvent(plan), 0)
    /\ IF PlanThrows(plan) \/ PlanIsEmpty(plan)
       THEN /\ http' = RemoveAt(http, k)
            /\ isRefining' = FALSE
       ELSE /\ http' = [http EXCEPT ![k] =
                            Request("apply_edits", @.prompt, @.sim.xml_key,
                                    Tail(plan.edits), @.sim)]
            /\ UNCHANGED isRefining
    /\ UNCHANGED <<homeVars, currentSim, isSimRunning, resetTrigger, dashVars,
                   hAppliedKey, hStopped>>

\* mutant of PlanResponse: setIsRefining(false) is not in a finally block, so
\* a throw skips it
PlanResponseNoFinally(k, plan) ==
    /\ k \in 1..Len(http)
    /\ http[k].url = "plan_edits"
    /\ lastEvent' = Event(PlanEvent(plan), 0)
    /\ IF PlanThrows(plan)
       THEN /\ http' = RemoveAt(http, k)
            /\ UNCHANGED isRefining
       ELSE IF PlanIsEmpty(plan)
       THEN /\ http' = RemoveAt(http, k)
            /\ isRefining' = FALSE
       ELSE /\ http' = [http EXCEPT ![k] =
                            Request("apply_edits", @.prompt, @.sim.xml_key,
                                    plan.edits, @.sim)]
            /\ UNCHANGED isRefining
    /\ UNCHANGED <<homeVars, currentSim, isSimRunning, resetTrigger, dashVars,
                   hAppliedKey, hStopped>>

\* handleRefineSubmit from the plan_edits response to its next await or return
PlanResponse(k, plan) ==
    /\ k \in 1..Len(http)
    /\ http[k].url = "plan_edits"
    /\ lastEvent' = Event(PlanEvent(plan), 0)
    /\ IF PlanThrows(plan)
       THEN /\ http' = RemoveAt(http, k)
            /\ isRefining' = FALSE
       ELSE IF PlanIsEmpty(plan)
       THEN /\ http' = RemoveAt(http, k)
            /\ isRefining' = FALSE
       ELSE /\ http' = [http EXCEPT ![k] =
                            Request("apply_edits", @.prompt, @.sim.xml_key,
                                    plan.edits, @.sim)]
            /\ UNCHANGED isRefining
    /\ UNCHANGED <<homeVars, currentSim, isSimRunning, resetTrigger, dashVars,
                   hAppliedKey, hStopped>>

\* handleRefineSubmit from the apply_edits response to its end; a 2xx body
\* changes currentSim and resetTrigger, so the connection effect runs
ApplyResponse(k, resp) ==
    /\ k \in 1..Len(http)
    /\ http[k].url = "apply_edits"
    /\ http' = RemoveAt(http, k)
    /\ isRefining' = FALSE
    /\ lastEvent' = Event(ApplyEvent(resp), 0)
    /\ IF ApplyThrows(resp)
       THEN UNCHANGED <<currentSim, resetTrigger, dashVars, hAppliedKey>>
       ELSE LET sim == AppliedSim(resp, http[k].sim)
                eff == ConnectionEffect(sockets, wsCurrent, cleanup,
                                        sim.simulation_id, isSimRunning,
                                        statusMessage, data)
            IN  /\ resetTrigger < MaxResets
                /\ currentSim' = sim
                /\ resetTrigger' = resetTrigger + 1
                /\ data' = eff.data
                /\ statusMessage' = eff.status
                /\ sockets' = eff.sockets
                /\ wsCurrent' = eff.ws
                /\ cleanup' = eff.cleanup
                /\ hTerminal' = (hTerminal /\ ~eff.fresh)
                /\ hAppliedKey' = IF ApplyEvent(resp) = "applyOk"
                                  THEN http[k].xml_key
                                  ELSE hAppliedKey
    /\ UNCHANGED <<homeVars, isSimRunning, hStopped>>

\* --------------------------------------------------- DashboardContainer
\* newWs.onopen; fired by the user agent on a socket that is still connecting
OnOpen(i) ==
    /\ i \in 1..Len(sockets)
    /\ sockets[i].readyState = "CONNECTING"
    /\ statusMessage' = TrainingStarted
    /\ sockets' = SendCommand(
                    [sockets EXCEPT ![i].readyState = "OPEN", ![i].opened = TRUE],
                    i, Command(sockets[i].isRunning))
    /\ lastEvent' = Event("open", i)
    /\ UNCHANGED <<homeVars, layoutVars, data, wsCurrent, cleanup, http,
                   hTerminal, hAppliedKey, hStopped>>

\* `newDataPoint.episode !== undefined`
IsPoint(f) == "episode" \in f.fields

\* `newDataPoint.status === "complete"`
IsComplete(f) == f.status = "complete"

\* `newDataPoint.error` as a condition
IsError(f) == ~Falsy(f.error)

\* the series after newWs.onmessage handled frame f
OnMessageData(series, f) ==
    IF f.parses /\ IsPoint(f) THEN Append(series, Point(f)) ELSE series

\* mutant of OnMessageStatus: the catch block reports the parse failure on
\* the status line
OnMessageStatusCatchReports(status, f) ==
    IF ~f.parses THEN ErrorMsg("parse")
    ELSE IF IsPoint(f) THEN EpisodeMsg(f.episode)
    ELSE IF IsComplete(f) THEN TrainingComplete
    ELSE IF IsError(f) THEN ErrorMsg(f.error)
    ELSE status

\* the status line after newWs.onmessage handled frame f
OnMessageStatus(status, f) ==
    IF ~f.parses THEN status
    ELSE IF IsPoint(f) THEN EpisodeMsg(f.episode)
    ELSE IF IsComplete(f) THEN TrainingComplete
    ELSE IF IsError(f) THEN ErrorMsg(f.error)
    ELSE status

\* mutant of OnMessageStops: an error frame does not stop the run
OnMessageStopsCompleteOnly(f) == f.parses /\ ~IsPoint(f) /\ IsComplete(f)

\* mutant of OnMessageStops: no frame stops the run
OnMessageStopsNever(f) == FALSE

\* mutant of OnMessageStops: status and error are read on frames that have
\* an episode as well
OnMessageStopsNoEpisodeTest(f) == f.parses /\ (IsComplete(f) \/ IsError(f))

\* whether newWs.onmessage calls setIsRunning(false) for frame f
OnMessageStops(f) == f.parses /\ ~IsPoint(f) /\ (IsComplete(f) \/ IsError(f))

\* the branch of newWs.onmessage frame f takes
OnMessageBranch(f) ==
    IF ~f.parses THEN "malformed"
    ELSE IF IsPoint(f) THEN "point"
    ELSE IF IsComplete(f) THEN "complete"
    ELSE IF IsError(f) THEN "errorFrame"
    ELSE "ignored"

\* A frame arrives on the wire of socket i.  The user agent fires the message
\* event only while readyState is OPEN; a frame reaching a socket on which
\* close() was called is dropped by the user agent.
Deliver(i, f) ==
    /\ i \in 1..Len(sockets)
    /\ sockets[i].readyState \in {"OPEN", "CLOSING"}
    /\ WasOpen(sockets[i])
    /\ IF sockets[i].readyState = "OPEN"
       THEN /\ Len(OnMessageData(data, f)) <= MaxSeries
            /\ ~(OnMessageStops(f) /\ isSimRunning) \/ RoomToSend(sockets, wsCurrent)
            /\ data' = OnMessageData(data, f)
            /\ statusMessage' = OnMessageStatus(statusMessage, f)
            /\ isSimRunning' = (isSimRunning /\ ~OnMessageStops(f))
            /\ sockets' = IF OnMessageStops(f) /\ isSimRunning
                          THEN IsRunningEffect(sockets, wsCurrent, FALSE)
                          ELSE sockets
            /\ hTerminal' = (hTerminal \/ OnMessageStops(f))
            /\ hStopped' = (hStopped \/ TerminalFrame(f))
            /\ lastEvent' = FrameEvent(OnMessageBranch(f), i, f)
       ELSE /\ UNCHANGED <<data, statusMessage, isSimRunning, sockets, hTerminal,
                           hStopped>>
            /\ lastEvent' = Event("dropped", i)
    /\ UNCHANGED <<homeVars, currentSim, resetTrigger, isRefining, wsCurrent,
                   cleanup, http, hAppliedKey>>

\* the status line after newWs.onerror
OnErrorStatus(status) == ConnectionError

\* the status line after newWs.onclose, whose closure holds captured as its
\* statusMessage
OnCloseStatus(captured, status) ==
    IF StartsWithTraining(captured) THEN ConnectionLost ELSE status

\* mutant of ConnectionClosed: onclose of the current socket opens a new one
ConnectionClosedRetries(i, failed) ==
    /\ i \in 1..Len(sockets)
    /\ sockets[i].readyState \in {"CONNECTING", "OPEN", "CLOSING"}
    /\ ~WasOpen(sockets[i]) => failed
    /\ IF i = wsCurrent /\ Len(sockets) <= MaxResets
       THEN /\ sockets' = Append([sockets EXCEPT ![i] = ClosedSocket(@.url)],
                                 NewSocket(sockets[i].url, isSimRunning, statusMessage))
            /\ wsCurrent' = Len(sockets) + 1
            /\ cleanup' = Len(sockets) + 1
       ELSE /\ sockets' = [sockets EXCEPT ![i] = ClosedSocket(@.url)]
            /\ UNCHANGED <<wsCurrent, cleanup>>
    /\ statusMessage' =
          OnCloseStatus(sockets[i].statusMessage,
                        IF failed THEN OnErrorStatus(statusMessage) ELSE statusMessage)
    /\ lastEvent' = Event(IF failed THEN "error" ELSE "close", i)
    /\ UNCHANGED <<homeVars, layoutVars, data, http, hTerminal, hAppliedKey, hStopped>>

\* The connection of socket i ends.  The user agent sets readyState to CLOSED
\* and fires close, preceded by error when the connection failed; a socket
\* that never opened ends by failure.
ConnectionClosed(i, failed) ==
    /\ i \in 1..Len(sockets)
    /\ sockets[i].readyState \in {"CONNECTING", "OPEN", "CLOSING"}
    /\ ~WasOpen(sockets[i]) => failed
    /\ sockets' = [sockets EXCEPT ![i] = ClosedSocket(@.url)]
    /\ statusMessage' =
          OnCloseStatus(sockets[i].statusMessage,
                        IF failed THEN OnErrorStatus(statusMessage) ELSE statusMessage)
    /\ lastEvent' = Event(IF failed THEN "error" ELSE "close", i)
    /\ UNCHANGED <<homeVars, layoutVars, data, wsCurrent, cleanup, http,
                   hTerminal, hAppliedKey, hStopped>>

\* ------------------------------------------------------------------ Next
Next ==
    \/ \E p \in Prompts : handleSubmit(p)
    \/ \E k \in 1..MaxHttp, ok \in BOOLEAN, parses \in BOOLEAN :
          GenerateResponse(k, ok, parses)
    \/ ClickRun
    \/ ClickPause
    \/ ClickReset
    \/ \E p \in RefinePrompts : handleRefineSubmit(p)
    \/ \E k \in 1..MaxHttp, plan \in PlanWire : PlanResponse(k, plan)
    \/ \E k \in 1..MaxHttp, resp \in ApplyWire : ApplyResponse(k, resp)
    \/ \E i \in 1..(MaxResets + 1) : OnOpen(i)
    \/ \E i \in 1..(MaxResets + 1), f \in WireFrames : Deliver(i, f)
    \/ \E i \in 1..(MaxResets + 1), failed \in BOOLEAN : ConnectionClosed(i, failed)

Spec == Init /\ [][Next]_vars

\* Every fetch settles: a plan_edits or apply_edits request in flight is
\* eventually answered (a rejected fetch takes the path of a non-2xx answer).
FairSpec ==
    /\ Spec
    /\ WF_vars(\E k \in 1..MaxHttp, plan \in PlanWire : PlanResponse(k, plan))
    /\ WF_vars(\E k \in 1..MaxHttp, resp \in ApplyWire : ApplyResponse(k, resp))

\* ======================================================================
\* Properties
\* ======================================================================
SeedPoint == [episode |-> 0, reward |-> 0, length |-> 0]

Live(sock) == sock.readyState \in {"CONNECTING", "OPEN"}

RefineRequests == {k \in 1..Len(http) : http[k].url \in {"plan_edits", "apply_edits"}}

ApplyRequests(q) == {k \in 1..Len(q) : q[k].url = "apply_edits"}

\* the events of a frame arriving on a socket
FrameEvents == {"point", "complete", "errorFrame", "malformed", "ignored", "dropped"}

\* the last event ran the connection effect and it created a socket
FreshInstance ==
    /\ lastEvent.op \in {"mount", "reset", "applyOk"}
    /\ wsCurrent # 0
    /\ sockets[wsCurrent].readyState = "CONNECTING"

\* C1: the episode values of the series never decrease (a frame whose episode
\* is not above the last accepted one is dropped).
C1_EpisodesNeverDecrease ==
    \A n \in 1..(Len(data) - 1) : data[n].episode <= data[n + 1].episode

\* C2: the one command frame sent when a socket opens carries the desired run
\* state in effect at the moment it opened.
C2_OpenSendsCurrentRunState ==
    lastEvent.op = "open" =>
        sockets[lastEvent.sock].sent = << Command(isSimRunning) >>

\* C3: once a complete or error frame was handled on a connection instance,
\* no later frame of that instance is accepted as a point of the series.
C3_NoPointAfterTerminal == ~(lastEvent.op = "point" /\ hTerminal)

\* C4: at most one plan/apply cycle is in flight, and a refine submitted while
\* one is in flight issues no request.
C4_OneCycleInFlight ==
    /\ Cardinality(RefineRequests) <= 1
    /\ lastEvent.op = "refineBusy" => (isRefining /\ Cardinality(RefineRequests) = 1)

C4_Witness == lastEvent.op = "refineBusy" /\ Cardinality(RefineRequests) = 1

\* C5: a non-2xx apply_edits response leaves model_xml and xml_key (and the
\* session identifier) as they were, triggers no reset and ends the cycle.
C5_ApplyFailureChangesNothing ==
    [][lastEvent'.op = "applyFailed" =>
          /\ currentSim' = currentSim
          /\ resetTrigger' = resetTrigger
          /\ UNCHANGED <<data, sockets, wsCurrent>>
          /\ ~isRefining']_vars

C5_Witness == lastEvent.op = "applyFailed" /\ ~isRefining /\ currentSim = GeneratedSim

\* C6: after a successful apply the revision token in use, and the one any
\* later request carries, is a new one and not the token the apply sent.
C6_TokenRotatesOnApply ==
    hAppliedKey # Undefined =>
        /\ currentSim.xml_key # hAppliedKey
        /\ \A k \in RefineRequests : http[k].xml_key # hAppliedKey

\* C7 as stated: right after an attach or a reset created a connection
\* instance the series is empty.
C7_SeriesEmptyAfterAttach == FreshInstance => data = << >>

\* C7 as amended: right after an attach or a reset created a connection
\* instance the series is the seed point alone and the status line is the
\* non-terminal "Connecting" one; the first point accepted after that yields
\* the seed point followed by exactly that point.
C7_SeriesSeedAfterAttach ==
    /\ [](FreshInstance => (data = <<SeedPoint>> /\ statusMessage = Connecting))
    /\ [][(lastEvent'.op = "point" /\ data = <<SeedPoint>>) =>
            \A i \in 1..(MaxResets + 1), f \in WireFrames :
                Deliver(i, f) => data' = <<SeedPoint, Point(f)>>]_vars

C7_Witness == lastEvent.op = "point" /\ Len(data) = 2 /\ data[1] = SeedPoint

\* C8: a frame arriving from a connection instance that was replaced changes
\* neither the series nor the status line nor the run state.
C8_StaleFramesDiscarded ==
    [][(lastEvent'.op \in FrameEvents /\ lastEvent'.sock # wsCurrent)
          => UNCHANGED <<data, statusMessage, isSimRunning>>]_vars

C8_Witness ==
    /\ lastEvent = Event("dropped", 1)
    /\ wsCurrent = 2
    /\ sockets[2].readyState = "OPEN"
    /\ sockets[1].readyState = "CLOSING"

\* C9: an empty or absent edit list from plan_edits issues no apply_edits
\* request, leaves the model revision alone, triggers no reset and ends the
\* cycle, so that the next refine is accepted.
C9_EmptyPlanEndsCycle ==
    [][lastEvent'.op = "planEmpty" =>
          /\ ApplyRequests(http') = {}
          /\ currentSim' = currentSim
          /\ resetTrigger' = resetTrigger
          /\ UNCHANGED <<data, sockets, wsCurrent>>
          /\ ~isRefining']_vars

C9_Witness == lastEvent.op = "planEmpty" /\ ~isRefining /\ http = << >>

\* C10 as stated: every transport but one is fully closed.
C10_PriorFullyClosed ==
    Cardinality({i \in 1..Len(sockets) : sockets[i].readyState # "CLOSED"}) <= 1

\* C10 as amended: at most one transport is connecting or open, and close()
\* was called on every transport before a later one was created (it is
\* closing or closed, its closing handshake possibly still pending).
C10_OneTransportLive ==
    /\ Cardinality({i \in 1..Len(sockets) : Live(sockets[i])}) <= 1
    /\ \A i \in 1..(Len(sockets) - 1) : ~Live(sockets[i])

C10_Witness ==
    /\ Len(sockets) = 2
    /\ sockets[1].readyState = "CLOSING"
    /\ sockets[2].readyState = "OPEN"

\* C11: a reset hands the run state desired at the reset to the socket it
\* creates, and the one frame that socket sends when it opens is that state:
\* pause when the user had paused before the reset, never a default.
C11_ResetKeepsRunIntent ==
    /\ (lastEvent.op = "reset" /\ FreshInstance) =>
            sockets[wsCurrent].isRunning = isSimRunning
    /\ lastEvent.op = "open" =>
            sockets[lastEvent.sock].sent =
                << IF sockets[lastEvent.sock].isRunning THEN "run" ELSE "pause" >>

C11_Witness ==
    /\ lastEvent = Event("open", 2)
    /\ currentSim = GeneratedSim
    /\ ~isSimRunning
    /\ sockets[2].sent = << "pause" >>

\* C12: a change of the desired run state while the current socket is open
\* sends exactly one frame, carrying the new value, on the current socket and
\* nothing on any other; a Run or Pause click that leaves the state as it was
\* sends nothing.
C12_ChangeSendsOnce ==
    [][/\ (/\ isSimRunning' # isSimRunning
           /\ wsCurrent # 0
           /\ sockets[wsCurrent].readyState = "OPEN")
          => sockets' = [sockets EXCEPT ![wsCurrent].sent =
                            Append(@, IF isSimRunning' THEN "run" ELSE "pause")]
       /\ (lastEvent'.op \in {"clickRun", "clickPause"} /\ isSimRunning' = isSimRunning)
          => sockets' = sockets]_vars

C12_Witness ==
    /\ lastEvent.op = "clickPause"
    /\ wsCurrent # 0
    /\ sockets[wsCurrent].readyState = "OPEN"
    /\ sockets[wsCurrent].sent = << "run", "pause" >>

\* C13: a 2xx apply response with simulation_id and model_xml does what a
\* reset does: close() was called on every socket there was, the series is
\* the initial one, and one new socket is connecting to the session identifier
\* in use, which after the apply is the simulation_id of the response.
C13_ApplyRecreatesLikeReset ==
    [][(lastEvent'.op \in {"applyOk", "reset"} /\ ~Falsy(currentSim'.simulation_id)) =>
          /\ \A i \in 1..Len(sockets) : ~Live(sockets'[i])
          /\ data' = << SeedPoint >>
          /\ Len(sockets') = Len(sockets) + 1
          /\ wsCurrent' = Len(sockets')
          /\ sockets'[wsCurrent'].readyState = "CONNECTING"
          /\ sockets'[wsCurrent'].url = currentSim'.simulation_id
          /\ lastEvent'.op = "applyOk" =>
                \A k \in 1..MaxHttp, resp \in ApplyWire :
                    ApplyResponse(k, resp) =>
                        currentSim'.simulation_id = resp.simulation_id]_vars

C13_Witness ==
    /\ lastEvent.op = "applyOk"
    /\ Len(sockets) = 2
    /\ sockets[1].readyState = "CLOSING"
    /\ sockets[2].url = "sim-2"
    /\ sockets[2].readyState = "CONNECTING"
    /\ data = << SeedPoint >>

\* C14: a non-2xx plan_edits response issues no apply_edits request, leaves
\* the model revision alone, triggers no reset and ends the cycle.
C14_PlanFailureEndsCycle ==
    [][lastEvent'.op = "planFailed" =>
          /\ ApplyRequests(http') = {}
          /\ currentSim' = currentSim
          /\ resetTrigger' = resetTrigger
          /\ UNCHANGED <<data, sockets, wsCurrent>>
          /\ ~isRefining']_vars

C14_Witness ==
    /\ lastEvent.op = "planFailed"
    /\ ~isRefining
    /\ http = << >>
    /\ currentSim = GeneratedSim

\* C15: a 2xx plan_edits or apply_edits response whose body does not parse or
\* lacks edits, simulation_id or model_xml leaves the model revision and the
\* session identifier as they were and ends the cycle.
C15_MalformedBodyChangesNothing ==
    [][lastEvent'.op \in {"planMalformed", "planEmpty", "applyMalformed"} =>
          /\ currentSim' = currentSim
          /\ ~isRefining']_vars

\* C16: a frame JSON.parse rejects changes neither the series nor the status
\* line nor the run state nor any socket, and the socket it arrived on is
\* still open with its handler in place: a point delivered next is appended.
C16_MalformedFrameDiscarded ==
    /\ [][lastEvent'.op = "malformed" =>
            UNCHANGED <<data, statusMessage, isSimRunning, sockets, wsCurrent>>]_vars
    /\ []((lastEvent.op = "malformed" /\ Len(data) < MaxSeries) =>
            /\ sockets[lastEvent.sock].readyState = "OPEN"
            /\ ENABLED (\E f \in WireFrames :
                            /\ "episode" \in f.fields
                            /\ Deliver(lastEvent.sock, f)
                            /\ data' = Append(data, Point(f))))

C16_Witness ==
    /\ lastEvent.op = "malformed"
    /\ lastEvent.sock = wsCurrent
    /\ sockets[wsCurrent].readyState = "OPEN"
    /\ Len(data) = 2
    /\ isSimRunning

\* C17: a frame with an episode field is a point and nothing else, whatever
\* status or error it carries: it is appended, the status line names its
\* episode and the run state stays.  A frame without episode whose status is
\* "complete" sets the status line to complete, whatever error it carries; a
\* truthy error counts only when neither applies.
C17_FramePrecedence ==
    [][lastEvent'.op \in (FrameEvents \ {"dropped"}) =>
          \A f \in WireFrames :
              (f.parses /\ Deliver(lastEvent'.sock, f)) =>
                  /\ "episode" \in f.fields =>
                        /\ data' = Append(data, Point(f))
                        /\ statusMessage' = EpisodeMsg(f.episode)
                        /\ isSimRunning' = isSimRunning
                  /\ ("episode" \notin f.fields /\ f.status = "complete") =>
                        /\ data' = data
                        /\ statusMessage' = TrainingComplete
                        /\ ~isSimRunning'
                  /\ (/\ "episode" \notin f.fields
                      /\ f.status # "complete"
                      /\ f.error \notin {Undefined, ""}) =>
                        /\ data' = data
                        /\ statusMessage' = ErrorMsg(f.error)
                        /\ ~isSimRunning']_vars

C17_Witness ==
    /\ lastEvent.op = "point"
    /\ lastEvent.mixed
    /\ isSimRunning
    /\ statusMessage = EpisodeMsg(1)
    /\ data[Len(data)].episode = 1

\* C18: a socket is created only by a step that changed the session
\* identifier or the reset counter (mount, Reset button, applied refine); the
\* end of a connection, by error or by close, creates none and leaves
\* ws.current where it was.
C18_NoAutomaticReconnect ==
    [][/\ Len(sockets') # Len(sockets) =>
            /\ lastEvent'.op \in {"mount", "reset", "applyOk"}
            /\ \/ currentSim'.simulation_id # currentSim.simulation_id
               \/ resetTrigger' # resetTrigger
       /\ lastEvent'.op \in {"error", "close"} =>
            /\ Len(sockets') = Len(sockets)
            /\ wsCurrent' = wsCurrent
            /\ \A i \in 1..Len(sockets) :
                  sockets'[i].readyState \in {sockets[i].readyState, "CLOSED"}]_vars

C18_Witness ==
    /\ lastEvent = Event("error", 1)
    /\ wsCurrent = 1
    /\ Len(sockets) = 1
    /\ sockets[1].readyState = "CLOSED"

\* C19: when every fetch settles, a refine cycle that was accepted ends
\* (isRefining is false again), and a prompt submitted then is accepted.
C19_RefineReturnsToIdle ==
    /\ isRefining ~> ~isRefining
    /\ []((Mounted /\ ~isRefining) =>
            \A p \in RefinePrompts \ {""} : RefineGuard(p, isRefining))

C19_Witness ==
    /\ lastEvent.op = "refine"
    /\ isRefining
    /\ resetTrigger = 1
    /\ currentSim.simulation_id = "sim-2"

\* C20: every frame sent is a run, pause or reset command; a step sends on a
\* socket only if that socket is open; a change of the run state while the
\* current socket is not open sends nothing.
C20_SendsOnlyWhileOpen ==
    /\ [](\A i \in 1..Len(sockets) : \A n \in 1..Len(sockets[i].sent) :
             sockets[i].sent[n] \in {"run", "pause", "reset"})
    /\ [][\A i \in 1..Len(sockets') :
             LET before == IF i <= Len(sockets) THEN sockets[i].sent ELSE << >>
             IN  Len(sockets'[i].sent) > Len(before) =>
                    sockets'[i].readyState = "OPEN"]_vars
    /\ [][(/\ isSimRunning' # isSimRunning
           /\ wsCurrent = 0 \/ sockets[wsCurrent].readyState # "OPEN")
          => sockets' = sockets]_vars

C20_Witness ==
    /\ lastEvent.op = "clickPause"
    /\ ~isSimRunning
    /\ Len(sockets) = 1
    /\ wsCurrent = 1
    /\ sockets[1].readyState = "CONNECTING"
    /\ sockets[1].sent = << >>

\* C21: currentSim (document, revision token, session identifier) changes in
\* no step but the mount of the session and a 2xx apply response that carries
\* simulation_id and model_xml.
C21_RevisionChangesOnlyOnApply ==
    [][currentSim' # currentSim => lastEvent'.op \in {"mount", "applyOk"}]_vars

\* C22: when the connection of the current socket ends, by error or by a
\* close nobody asked for, the status line afterwards reports the error or
\* the lost connection.
C22_FailureSurfaced ==
    [][(/\ lastEvent'.op \in {"error", "close"}
        /\ lastEvent'.sock = wsCurrent
        /\ Live(sockets[wsCurrent]))
          => statusMessage' \in {ConnectionError, ConnectionLost}]_vars

\* C23: the error or close event of a socket that was replaced changes
\* neither the status line nor the series of the instance that replaced it.
C23_ReplacedSocketChangesNothing ==
    [][(/\ lastEvent'.op \in {"error", "close"}
        /\ lastEvent'.sock # wsCurrent)
          => UNCHANGED <<statusMessage, data>>]_vars

\* C24: an apply_edits request comes into being only in the step that handles
\* a plan_edits response with a non-empty edit list, in the place of that
\* cycle's plan request; its edits are the response's list as it came and its
\* xml_key is the one the plan request sent.
C24_ApplyCarriesPlan ==
    [][/\ Cardinality(ApplyRequests(http')) > Cardinality(ApplyRequests(http)) =>
            lastEvent'.op = "planOk"
       /\ lastEvent'.op = "planOk" =>
            \A k \in 1..MaxHttp, plan \in PlanWire :
                PlanResponse(k, plan) =>
                    /\ http[k].url = "plan_edits"
                    /\ http'[k].url = "apply_edits"
                    /\ http'[k].edits = plan.edits
                    /\ http'[k].xml_key = http[k].xml_key]_vars

C24_Witness ==
    /\ lastEvent.op = "planOk"
    /\ \E k \in 1..Len(http) :
          /\ http[k].url = "apply_edits"
          /\ http[k].edits = << "e1", "e2" >>
          /\ http[k].xml_key = "key-1"

\* C25: whenever a frame is handled on a socket, that socket has already sent
\* the command of its open event, as the first frame it sent.
C25_OpenCommandBeforeFrames ==
    lastEvent.op \in (FrameEvents \ {"dropped"}) =>
        /\ sockets[lastEvent.sock].sent # << >>
        /\ sockets[lastEvent.sock].sent[1] =
              (IF sockets[lastEvent.sock].isRunning THEN "run" ELSE "pause")

C25_Witness ==
    /\ lastEvent = Event("point", 1)
    /\ sockets[1].sent = << "run" >>
    /\ Len(data) = 2

\* C26: a prompt that is blank after trimming issues no request; there is no
\* session and no socket before a generate response, and a generate response
\* that is not 2xx or does not parse leaves it so.
C26_SessionOnlyAfterGenerate ==
    /\ [](~Mounted => (currentSim = NullSim /\ sockets = << >> /\ wsCurrent = 0))
    /\ [][lastEvent'.op \in {"submit", "submitBlank"} =>
            \A p \in {"", "  "} : handleSubmit(p) => http' = http]_vars
    /\ [][lastEvent'.op \in {"mount", "generateFailed"} =>
            \A k \in 1..MaxHttp, ok \in BOOLEAN, parses \in BOOLEAN :
                (GenerateResponse(k, ok, parses) /\ ~(ok /\ parses)) =>
                    (~Mounted' /\ sockets' = << >>)]_vars
    /\ [][(Mounted' /\ ~Mounted) =>
            \E k \in 1..MaxHttp : GenerateResponse(k, TRUE, TRUE)]_vars

C26_Witness ==
    /\ lastEvent.op = "generateFailed"
    /\ ~Mounted
    /\ sockets = << >>
    /\ http = << >>

\* C27: a terminal frame handled while the run state is Run sets it to Pause
\* and sends exactly one pause frame on the socket the frame came from, which
\* is the current one; handled while the run state is Pause it sends nothing.
C27_TerminalFramePauses ==
    [][lastEvent'.op \in (FrameEvents \ {"dropped"}) =>
          \A f \in WireFrames :
              (TerminalFrame(f) /\ Deliver(lastEvent'.sock, f)) =>
                  /\ ~isSimRunning'
                  /\ lastEvent'.sock = wsCurrent
                  /\ sockets' = IF isSimRunning
                                THEN [sockets EXCEPT ![lastEvent'.sock].sent =
                                          Append(@, "pause")]
                                ELSE sockets]_vars

C27_Witness ==
    /\ lastEvent.op = "errorFrame"
    /\ ~isSimRunning
    /\ sockets[lastEvent.sock].sent = << "run", "pause" >>

\* C28: from a terminal frame until Run is clicked the run state is Pause, a
\* socket created by a reset in that time holds Pause, and a socket that
\* holds Pause sends pause when it opens.
C28_ResetAfterTerminalStaysPaused ==
    /\ hStopped => ~isSimRunning
    /\ (lastEvent.op = "reset" /\ FreshInstance /\ hStopped) =>
            ~sockets[wsCurrent].isRunning
    /\ (lastEvent.op = "open" /\ ~sockets[lastEvent.sock].isRunning) =>
            sockets[lastEvent.sock].sent = << "pause" >>

C28_Witness ==
    /\ lastEvent = Event("open", 2)
    /\ hStopped
    /\ currentSim = GeneratedSim
    /\ sockets[2].sent = << "pause" >>

\* C29: the series always starts with the seed point; a step changes it only
\* by appending the one point of the frame it handled or, in a mount, reset
\* or applied refine, by replacing it with the seed point alone; and every
\* change of the session identifier or of the reset counter leaves the series
\* as the seed point alone.
C29_SeriesAppendOnly ==
    /\ [](Len(data) >= 1 /\ data[1] = SeedPoint)
    /\ [][data' # data =>
            \/ /\ lastEvent'.op = "point"
               /\ Len(data') = Len(data) + 1
               /\ SubSeq(data', 1, Len(data)) = data
               /\ \E f \in WireFrames :
                     Deliver(lastEvent'.sock, f) /\ data'[Len(data')] = Point(f)
            \/ /\ lastEvent'.op \in {"mount", "reset", "applyOk"}
               /\ data' = << SeedPoint >>]_vars
    /\ [][(\/ currentSim'.simulation_id # currentSim.simulation_id
           \/ resetTrigger' # resetTrigger)
          => data' = << SeedPoint >>]_vars

\* C30: a step sends only on the socket created last, which is ws.current,
\* and the socket whose open event fires is the one created last.
C30_NoSendOnSuperseded ==
    [][/\ \A i \in 1..Len(sockets') :
             LET before == IF i <= Len(sockets) THEN sockets[i].sent ELSE << >>
             IN  Len(sockets'[i].sent) > Len(before) =>
                    (i = Len(sockets') /\ i = wsCurrent')
       /\ lastEvent'.op = "open" => lastEvent'.sock = Len(sockets')]_vars

C30_Witness ==
    /\ lastEvent.op = "clickPause"
    /\ Len(sockets) = 2
    /\ wsCurrent = 2
    /\ sockets[1].readyState = "CLOSING"
    /\ sockets[2].sent = << "run", "pause" >>

====
